---- MODULE Spec2Model ----
(***************************************************************************)
(* On-demand upstream supervisor of caddy_ondemand_upstreams.              *)
(*                                                                         *)
(* OndemandUpstreams (ondemand_upstreams.go) lazily creates an             *)
(* UpstreamProcess (process.go), starts it on GetUpstreams, and the        *)
(* UpstreamProcess stops it from an idle-monitor goroutine or from         *)
(* Cleanup.  Every goroutine of the program is a thread of the model:      *)
(* request goroutines calling GetUpstreams, the goroutine calling Cleanup, *)
(* one idle-monitor goroutine per successful Start and one grace-timer     *)
(* goroutine per Stop whose SIGINT was delivered.                          *)
(*                                                                         *)
(* Time is kept relative: sleep[t] is what remains of a goroutine's        *)
(* time.Sleep and age[s] is time.Now() - u.lastActivity, so                *)
(*   u.lastActivity.Add(u.idleTimeout).After(time.Now())                   *)
(* is idleTimeout > age.  One time unit is the monitor's tick (1 second).  *)
(* time.Sleep sleeps at least its argument, so a goroutine whose sleep has *)
(* run out may still be scheduled arbitrarily late.                        *)
(***************************************************************************)
EXTENDS Integers, FiniteSets

\* ---------------------------------------------------------------- bounds
\* Request goroutines that may call GetUpstreams concurrently.
NumCallers == 2
\* GetUpstreams calls made over a run, all callers together.
MaxCalls == 2
\* exec.Cmd values created over a run (spawn attempts).
MaxSpawn == 2
\* age saturates here; no idle timeout drawn below is larger.
MaxAge == 2

\* ------------------------------------------------------ program constants
\* Validate: "if o.Port == 0 { o.Port = -1 }", Start: "if u.port == -1".
AutoPort == -1
\* The idle monitor's time.Sleep(time.Second), the unit of time here.
TickInterval == 1
\* "Set to -1 to disable process termination."
IdleDisabled == -1

\* Configurations the host may hand over (Validate has run).
FixedPorts == {9999}
EphemeralPorts == {40001}
\* <<startup delay, idle timeout>>, in ticks.
Timings == {<<0, 2>>, <<1, 2>>, <<0, IdleDisabled>>}
GracePeriods == {1}

Callers == 1 .. NumCallers
\* An UpstreamProcess object is named after the caller that created it.
Sups == Callers
Insts == 1 .. MaxSpawn

\* Thread identities.
CleanupT == 0
MonT(i) == NumCallers + i
TimerT(i) == NumCallers + MaxSpawn + i
Monitors == {MonT(i) : i \in Insts}
Timers == {TimerT(i) : i \in Insts}
Stoppers == {CleanupT} \cup Monitors
Threads == Callers \cup {CleanupT} \cup Monitors \cup Timers
InstOf(t) == IF t \in Monitors THEN t - NumCallers ELSE t - NumCallers - MaxSpawn

\* sync.Mutex with no holder; nil *UpstreamProcess; nil *exec.Cmd.
Free == -1
NilSup == 0
NilCmd == 0

VARIABLES
  cfg,              \* the configuration: [port, placeholder (the command
                    \* holds a %d), delay, idle, grace]
  upstreamProcess,  \* o.upstreamProcess: NilSup or an UpstreamProcess
  created,          \* the UpstreamProcess objects NewUpstreamProcess has made
  cmd,              \* u.cmd of each UpstreamProcess: NilCmd or an exec.Cmd
  port,             \* u.port
  age,              \* time.Now() - u.lastActivity, saturating at MaxAge
  mu,               \* u.mu: Free or the thread holding it
  proc,             \* each exec.Cmd: "none" (not created), "unstarted"
                    \* (created, cmd.Process nil), "alive", "exited" or
                    \* "killed" (ended by itself or by SIGKILL, not yet
                    \* waited for), "reaped"
  owner,            \* the UpstreamProcess whose Start created the exec.Cmd
  args,             \* the port in each exec.Cmd's command line (0: none)
  pc,               \* each thread's position
  sleep,            \* what remains of each thread's time.Sleep
  tsup,             \* the receiver u of the method a thread is in
  startErr,         \* what the caller's Start returned: TRUE for an error
  res,              \* what the caller's last GetUpstreams returned
  calls,            \* GetUpstreams calls made so far
  crashed,          \* a nil dereference has panicked the program
  hist              \* history of the run, read by the properties only

vars == <<cfg, upstreamProcess, created, cmd, port, age, mu, proc, owner, args,
          pc, sleep, tsup, startErr, res, calls, crashed, hist>>

\* What GetUpstreams returns: a dial address localhost:<port> or an error.
\* ready: whether the process behind the address had been spawned and had
\* passed its startup delay when the address was returned.
NoResult == [kind |-> "none", port |-> 0, ready |-> FALSE]
ErrResult == [kind |-> "err", port |-> 0, ready |-> FALSE]
DialResult(p, r) == [kind |-> "addr", port |-> p, ready |-> r]

\* A command without the %d placeholder needs a fixed port.
Configs ==
  {[port |-> p, placeholder |-> h, delay |-> d[1], idle |-> d[2], grace |-> g] :
     p \in {AutoPort} \cup FixedPorts, h \in BOOLEAN, d \in Timings,
     g \in GracePeriods}

ValidConfigs == {c \in Configs : c.port = AutoPort => c.placeholder}

InitHist ==
  [gapped |-> [s \in Sups |-> FALSE],   \* an activity gap reached the timeout
   alloc |-> FALSE,                      \* getAvailablePort has been called
   batch |-> {},                         \* callers of the first concurrent calls
   returned |-> FALSE]                   \* some GetUpstreams call has returned

Init ==
  /\ cfg \in ValidConfigs
  /\ upstreamProcess = NilSup
  /\ created = {}
  /\ cmd = [s \in Sups |-> NilCmd]
  /\ port = [s \in Sups |-> AutoPort]
  /\ age = [s \in Sups |-> 0]
  /\ mu = [s \in Sups |-> Free]
  /\ proc = [i \in Insts |-> "none"]
  /\ owner = [i \in Insts |-> NilSup]
  /\ args = [i \in Insts |-> 0]
  /\ pc = [t \in Threads |-> IF t \in Callers \cup {CleanupT} THEN "idle" ELSE "off"]
  /\ sleep = [t \in Threads |-> 0]
  /\ tsup = [t \in Threads |-> NilSup]
  /\ startErr = [c \in Callers |-> FALSE]
  /\ res = [c \in Callers |-> NoResult]
  /\ calls = 0
  /\ crashed = FALSE
  /\ hist = InitHist

\* ------------------------------------------------------- process.go helpers
\* An IsRunning that never finds a process handle.
IsRunningNever(s) == FALSE

\* IsRunning: "return u.cmd != nil".
IsRunning(s) == cmd[s] # NilCmd

\* An idle test that fires one tick before the timeout.
WithinIdleWindowEarly(s) == cfg.idle > age[s] + 1

\* An idle test that fires two ticks after the timeout.
WithinIdleWindowLate(s) == cfg.idle + 2 * TickInterval > age[s]

\* The monitor's test "u.lastActivity.Add(u.idleTimeout).After(time.Now())".
WithinIdleWindow(s) == cfg.idle > age[s]

\* A Start that assigns a port on every start.
NeedsPortAlways(s) == TRUE

\* Start: "if u.port == -1", a port has to be assigned.
NeedsPort(s) == port[s] = AutoPort

\* getAvailablePort: a port the OS assigned, or 0 with an error.
AllocError == 0
getAvailablePort == EphemeralPorts \cup {AllocError}

\* getFormattedCommand: fmt.Sprintf(command, u.port) when the command holds
\* "%d", the command unchanged otherwise (0: no port in the command).
getFormattedCommand(p) == IF cfg.placeholder THEN p ELSE 0

\* cmd.Start(): the process is spawned, or an error leaves cmd.Process nil.
SpawnOutcomes == {"alive", "unstarted"}

\* The process has ended and cmd.Wait() has not yet collected it.
Exited(st) == st \in {"exited", "killed"}

\* cmd.Process.Signal(os.Interrupt): delivered to a live process; for one
\* that has already exited the os package may report an error.
SignalOutcomes(st) == IF Exited(st) THEN {"ok", "err"} ELSE {"ok"}

\* LogActivity: "u.lastActivity = time.Now()".
LogActivity(a, s) == [a EXCEPT ![s] = 0]

\* The receiver u of the method thread t runs: the goroutines of Start and
\* Stop close over the u of the call that launched them.
Recv(t) == IF t \in Callers \cup {CleanupT} THEN tsup[t] ELSE owner[InstOf(t)]

\* The exec.Cmd was spawned and its Start has passed the startup delay.
Ready(i) ==
  /\ proc[i] \in {"alive", "exited", "killed", "reaped"}
  /\ \A c \in Callers : pc[c] \in {"spawn", "delay"} => cmd[tsup[c]] # i

\* Some Start of s has succeeded.
Started(s) == \E i \in Insts : owner[i] = s /\ Ready(i)

FreeInsts == {i \in Insts : proc[i] = "none"}
NewInst == CHOOSE i \in FreeInsts : \A j \in FreeInsts : i <= j

\* ------------------------------------------------------------ GetUpstreams
\* "if o.upstreamProcess == nil": the test, made without any lock.
GetUpstreamsEnter(c) ==
  /\ ~crashed
  /\ pc[c] = "idle"
  /\ calls < MaxCalls
  /\ calls' = calls + 1
  /\ res' = [res EXCEPT ![c] = NoResult]
  /\ pc' = [pc EXCEPT ![c] = IF upstreamProcess = NilSup THEN "create" ELSE "start"]
  /\ hist' = [hist EXCEPT !.batch =
                IF ~hist.returned /\ FreeInsts = Insts THEN @ \cup {c} ELSE @]
  /\ UNCHANGED <<cfg, upstreamProcess, created, cmd, port, age, mu, proc, owner, args,
                 sleep, tsup, startErr, crashed>>

\* "o.upstreamProcess = NewUpstreamProcess(o.Command, o.Port, ...)".
NewUpstreamProcess(c) ==
  /\ ~crashed
  /\ pc[c] = "create"
  /\ created' = created \cup {c}
  /\ upstreamProcess' = c
  /\ port' = [port EXCEPT ![c] = cfg.port]
  /\ age' = LogActivity(age, c)
  /\ pc' = [pc EXCEPT ![c] = "start"]
  /\ UNCHANGED <<cfg, cmd, mu, proc, owner, args, sleep, tsup, startErr, res, calls,
                 crashed, hist>>

\* Start, lines 56-82: take the lock; return nil when IsRunning; assign a
\* port when it is -1; create the exec.Cmd.
StartLock(c) ==
  /\ ~crashed
  /\ pc[c] = "start"
  /\ LET s == upstreamProcess IN
     /\ mu[s] = Free
     /\ IF IsRunning(s)
        THEN /\ pc' = [pc EXCEPT ![c] = "ret"]
             /\ startErr' = [startErr EXCEPT ![c] = FALSE]
             /\ UNCHANGED <<cmd, port, mu, proc, owner, args, tsup, hist>>
        ELSE \E p \in IF NeedsPort(s) THEN getAvailablePort ELSE {port[s]} :
               IF p = AllocError
               THEN /\ pc' = [pc EXCEPT ![c] = "ret"]
                    /\ startErr' = [startErr EXCEPT ![c] = TRUE]
                    /\ hist' = [hist EXCEPT !.alloc = TRUE]
                    /\ UNCHANGED <<cmd, port, mu, proc, owner, args, tsup>>
               ELSE /\ FreeInsts # {}
                    /\ port' = [port EXCEPT ![s] = p]
                    /\ cmd' = [cmd EXCEPT ![s] = NewInst]
                    /\ proc' = [proc EXCEPT ![NewInst] = "unstarted"]
                    /\ owner' = [owner EXCEPT ![NewInst] = s]
                    /\ args' = [args EXCEPT ![NewInst] = getFormattedCommand(p)]
                    /\ mu' = [mu EXCEPT ![s] = c]
                    /\ tsup' = [tsup EXCEPT ![c] = s]
                    /\ pc' = [pc EXCEPT ![c] = "spawn"]
                    /\ hist' = [hist EXCEPT !.alloc = @ \/ NeedsPort(s)]
                    /\ UNCHANGED startErr
  /\ UNCHANGED <<cfg, upstreamProcess, created, age, sleep, res, calls, crashed>>

\* Start, lines 84-97: cmd.Start(); on an error return it (u.cmd stays set);
\* otherwise sleep for the startup delay.
StartSpawn(c) ==
  /\ ~crashed
  /\ pc[c] = "spawn"
  /\ LET s == tsup[c]
         i == cmd[s] IN
     \E o \in SpawnOutcomes :
       /\ proc' = [proc EXCEPT ![i] = o]
       /\ IF o = "alive"
          THEN /\ pc' = [pc EXCEPT ![c] = "delay"]
               /\ sleep' = [sleep EXCEPT ![c] = cfg.delay]
               /\ UNCHANGED <<mu, startErr>>
          ELSE /\ pc' = [pc EXCEPT ![c] = "ret"]
               /\ mu' = [mu EXCEPT ![s] = Free]
               /\ startErr' = [startErr EXCEPT ![c] = TRUE]
               /\ UNCHANGED sleep
  /\ UNCHANGED <<cfg, upstreamProcess, created, cmd, port, age, owner, args, tsup, res,
                 calls, crashed, hist>>

\* Start, lines 99-118: LogActivity, launch the idle monitor, return nil.
StartFinish(c) ==
  /\ ~crashed
  /\ pc[c] = "delay"
  /\ sleep[c] = 0
  /\ LET s == tsup[c]
         m == MonT(cmd[s]) IN
     /\ age' = LogActivity(age, s)
     /\ pc' = [pc EXCEPT ![c] = "ret", ![m] = "sleep"]
     /\ sleep' = [sleep EXCEPT ![m] = TickInterval]
     /\ mu' = [mu EXCEPT ![s] = Free]
     /\ startErr' = [startErr EXCEPT ![c] = FALSE]
  /\ UNCHANGED <<cfg, upstreamProcess, created, cmd, port, proc, owner, args, tsup, res,
                 calls, crashed, hist>>

\* GetUpstreams, lines 203-213: Start's error is dropped; when IsRunning,
\* LogActivity and the dial address localhost:<GetPort()>, else the error
\* "no upstreams available".
GetUpstreamsReturn(c) ==
  /\ ~crashed
  /\ pc[c] = "ret"
  /\ LET s == upstreamProcess IN
     IF IsRunning(s)
     THEN /\ age' = LogActivity(age, s)
          /\ res' = [res EXCEPT ![c] = DialResult(port[s], Ready(cmd[s]))]
     ELSE /\ res' = [res EXCEPT ![c] = ErrResult]
          /\ UNCHANGED age
  /\ pc' = [pc EXCEPT ![c] = "idle"]
  /\ tsup' = [tsup EXCEPT ![c] = NilSup]
  /\ startErr' = [startErr EXCEPT ![c] = FALSE]
  /\ hist' = [hist EXCEPT !.returned = TRUE]
  /\ UNCHANGED <<cfg, upstreamProcess, created, cmd, port, mu, proc, owner, args, sleep,
                 calls, crashed>>

\* ----------------------------------------------------------------- Cleanup
\* Cleanup: "if o.upstreamProcess != nil && o.upstreamProcess.IsRunning()
\* { o.upstreamProcess.Stop() }", both read without the lock.
Cleanup ==
  /\ ~crashed
  /\ pc[CleanupT] = "idle"
  /\ IF upstreamProcess # NilSup /\ IsRunning(upstreamProcess)
     THEN /\ pc' = [pc EXCEPT ![CleanupT] = "stop"]
          /\ tsup' = [tsup EXCEPT ![CleanupT] = upstreamProcess]
     ELSE /\ pc' = [pc EXCEPT ![CleanupT] = "done"]
          /\ UNCHANGED tsup
  /\ UNCHANGED <<cfg, upstreamProcess, created, cmd, port, age, mu, proc, owner, args,
                 sleep, startErr, res, calls, crashed, hist>>

\* -------------------------------------------------------------------- Stop
\* Where a thread that has returned from Stop goes: Cleanup returns, the
\* idle monitor leaves its loop and ends.
AfterStop(t) == IF t = CleanupT THEN "done" ELSE "off"

\* Stop, lines 122-144: take the lock; return when not IsRunning; send
\* SIGINT through u.cmd.Process (a nil dereference when cmd.Start failed);
\* on an error return with u.cmd still set; otherwise launch the grace
\* timer and go on to cmd.Wait().
StopLock(t) ==
  /\ ~crashed
  /\ pc[t] = "stop"
  /\ LET s == Recv(t)
         i == cmd[s] IN
     /\ mu[s] = Free
     /\ IF ~IsRunning(s)
        THEN /\ pc' = [pc EXCEPT ![t] = AfterStop(t)]
             /\ UNCHANGED <<mu, sleep, crashed>>
        ELSE IF proc[i] = "unstarted"
        THEN /\ crashed' = TRUE
             /\ UNCHANGED <<pc, mu, sleep>>
        ELSE \E o \in SignalOutcomes(proc[i]) :
               IF o = "err"
               THEN /\ pc' = [pc EXCEPT ![t] = AfterStop(t)]
                    /\ UNCHANGED <<mu, sleep, crashed>>
               ELSE /\ pc' = [pc EXCEPT ![t] = "wait", ![TimerT(i)] = "sleep"]
                    /\ sleep' = [sleep EXCEPT ![TimerT(i)] = cfg.grace]
                    /\ mu' = [mu EXCEPT ![s] = t]
                    /\ UNCHANGED crashed
  /\ UNCHANGED <<cfg, upstreamProcess, created, cmd, port, age, proc, owner, args, tsup,
                 startErr, res, calls, hist>>

\* A Kill that leaves the process as it is.
KillIgnored(st) == st

\* Process.Kill(): SIGKILL ends a live process; on one that has already
\* ended it only reports an error.
Kill(st) == IF st = "alive" THEN "killed" ELSE st

\* Stop, lines 146-149, after cmd.Wait(): "if u.IsRunning() { ...
\* u.cmd.Process.Kill() }".
StopKillsAfterWait(s) == IsRunning(s)

\* A Stop that went on without "u.cmd = nil".
KeptCmd(s) == cmd

\* Stop, line 153: "u.cmd = nil".
ClearedCmd(s) == [cmd EXCEPT ![s] = NilCmd]

\* Stop, lines 140-153: cmd.Wait() returns once the process has exited and
\* reaps it; IsRunning still holds, so Kill is called on the reaped process
\* (it reports "process already finished"); "u.cmd = nil"; unlock.
StopWait(t) ==
  /\ ~crashed
  /\ pc[t] = "wait"
  /\ LET s == Recv(t)
         i == cmd[s] IN
     /\ Exited(proc[i])
     /\ proc' = [proc EXCEPT ![i] = IF StopKillsAfterWait(s) THEN Kill("reaped")
                                                               ELSE "reaped"]
     /\ cmd' = ClearedCmd(s)
     /\ mu' = [mu EXCEPT ![s] = Free]
     /\ pc' = [pc EXCEPT ![t] = AfterStop(t)]
  /\ UNCHANGED <<cfg, upstreamProcess, created, port, age, owner, args, sleep, tsup,
                 startErr, res, calls, crashed, hist>>

\* ------------------------------------------------------------ idle monitor
\* The goroutine of Start, lines 103-116: after each one-second sleep,
\* continue while within the idle window, else call Stop and leave the loop.
MonitorTick(i) ==
  /\ ~crashed
  /\ pc[MonT(i)] = "sleep"
  /\ sleep[MonT(i)] = 0
  /\ IF WithinIdleWindow(owner[i])
     THEN /\ sleep' = [sleep EXCEPT ![MonT(i)] = TickInterval]
          /\ UNCHANGED pc
     ELSE /\ pc' = [pc EXCEPT ![MonT(i)] = "stop"]
          /\ UNCHANGED sleep
  /\ UNCHANGED <<cfg, upstreamProcess, created, cmd, port, age, mu, proc, owner, args,
                 tsup, startErr, res, calls, crashed, hist>>

\* ------------------------------------------------------------- grace timer
\* A grace timer that ends without looking at the process.
TimerNextSkips(s) == "off"

\* The goroutine of Stop, lines 135-138: "if u.IsRunning() { ... Kill() }".
TimerNext(s) == IF IsRunning(s) THEN "kill" ELSE "off"

\* The goroutine of Stop, lines 132-139, after its sleep.
TimerFire(i) ==
  /\ ~crashed
  /\ pc[TimerT(i)] = "sleep"
  /\ sleep[TimerT(i)] = 0
  /\ pc' = [pc EXCEPT ![TimerT(i)] = TimerNext(owner[i])]
  /\ UNCHANGED <<cfg, upstreamProcess, created, cmd, port, age, mu, proc, owner, args,
                 sleep, tsup, startErr, res, calls, crashed, hist>>

\* "u.cmd.Process.Kill()": u.cmd is read again, with no lock held.  A nil
\* u.cmd or a nil cmd.Process panics; SIGKILL ends a live process.
TimerKill(i) ==
  /\ ~crashed
  /\ pc[TimerT(i)] = "kill"
  /\ LET j == cmd[owner[i]] IN
     IF j = NilCmd \/ proc[j] = "unstarted"
     THEN /\ crashed' = TRUE
          /\ UNCHANGED <<pc, proc>>
     ELSE /\ pc' = [pc EXCEPT ![TimerT(i)] = "off"]
          /\ proc' = [proc EXCEPT ![j] = Kill(@)]
          /\ UNCHANGED crashed
  /\ UNCHANGED <<cfg, upstreamProcess, created, cmd, port, age, mu, owner, args, sleep,
                 tsup, startErr, res, calls, hist>>

\* ------------------------------------------------------------- environment
\* The supervised process exits by itself (on SIGINT, or at any other time).
ProcessExit(i) ==
  /\ ~crashed
  /\ proc[i] = "alive"
  /\ proc' = [proc EXCEPT ![i] = "exited"]
  /\ UNCHANGED <<cfg, upstreamProcess, created, cmd, port, age, mu, owner, args, pc,
                 sleep, tsup, startErr, res, calls, crashed, hist>>

\* One unit of time passes.
Tick ==
  /\ ~crashed
  /\ sleep' = [t \in Threads |-> IF sleep[t] > 0 THEN sleep[t] - 1 ELSE 0]
  /\ age' = [s \in Sups |-> IF s \in created /\ age[s] < MaxAge
                               THEN age[s] + 1 ELSE age[s]]
  /\ hist' = [hist EXCEPT !.gapped =
                [s \in Sups |-> @[s] \/ (Started(s) /\ age'[s] >= cfg.idle)]]
  /\ UNCHANGED <<cfg, upstreamProcess, created, cmd, port, mu, proc, owner, args, pc,
                 tsup, startErr, res, calls, crashed>>

Next ==
  \/ \E c \in Callers : GetUpstreamsEnter(c)
  \/ \E c \in Callers : NewUpstreamProcess(c)
  \/ \E c \in Callers : StartLock(c)
  \/ \E c \in Callers : StartSpawn(c)
  \/ \E c \in Callers : StartFinish(c)
  \/ \E c \in Callers : GetUpstreamsReturn(c)
  \/ Cleanup
  \/ \E t \in Stoppers : StopLock(t)
  \/ \E t \in Stoppers : StopWait(t)
  \/ \E i \in Insts : MonitorTick(i)
  \/ \E i \in Insts : TimerFire(i)
  \/ \E i \in Insts : TimerKill(i)
  \/ \E i \in Insts : ProcessExit(i)
  \/ Tick

Spec == Init /\ [][Next]_vars

\* ------------------------------------------------------- prompt scheduling
\* For bounds in real time: an idle timeout of one tick, so that a full
\* tick beyond the timeout lies within the range of age.
TimedConfigs == {[c EXCEPT !.idle = TickInterval] : c \in ValidConfigs}

InitTimed ==
  /\ cfg \in TimedConfigs
  /\ upstreamProcess = NilSup
  /\ created = {}
  /\ cmd = [s \in Sups |-> NilCmd]
  /\ port = [s \in Sups |-> AutoPort]
  /\ age = [s \in Sups |-> 0]
  /\ mu = [s \in Sups |-> Free]
  /\ proc = [i \in Insts |-> "none"]
  /\ owner = [i \in Insts |-> NilSup]
  /\ args = [i \in Insts |-> 0]
  /\ pc = [t \in Threads |-> IF t \in Callers \cup {CleanupT} THEN "idle" ELSE "off"]
  /\ sleep = [t \in Threads |-> 0]
  /\ tsup = [t \in Threads |-> NilSup]
  /\ startErr = [c \in Callers |-> FALSE]
  /\ res = [c \in Callers |-> NoResult]
  /\ calls = 0
  /\ crashed = FALSE
  /\ hist = InitHist

\* The idle monitor's time.Sleep(time.Second) has run out: the goroutine is
\* runnable and about to make its test.
MonitorDue(i) == pc[MonT(i)] = "sleep" /\ sleep[MonT(i)] = 0

\* Time passes only when no idle monitor is due: a monitor goroutine runs
\* as soon as its sleep ends.
TickTimed ==
  /\ \A i \in Insts : ~MonitorDue(i)
  /\ Tick

NextTimed ==
  \/ \E c \in Callers : GetUpstreamsEnter(c)
  \/ \E c \in Callers : NewUpstreamProcess(c)
  \/ \E c \in Callers : StartLock(c)
  \/ \E c \in Callers : StartSpawn(c)
  \/ \E c \in Callers : StartFinish(c)
  \/ \E c \in Callers : GetUpstreamsReturn(c)
  \/ Cleanup
  \/ \E t \in Stoppers : StopLock(t)
  \/ \E t \in Stoppers : StopWait(t)
  \/ \E i \in Insts : MonitorTick(i)
  \/ \E i \in Insts : TimerFire(i)
  \/ \E i \in Insts : TimerKill(i)
  \/ \E i \in Insts : ProcessExit(i)
  \/ TickTimed

SpecTimed == InitTimed /\ [][NextTimed]_vars

\* ---------------------------------------------------------------- progress
\* One configuration for the progress properties: a fixed port, a startup
\* delay and an idle timeout of two ticks.
LiveConfigs == {c \in ValidConfigs : c.port # AutoPort /\ c.placeholder
                                      /\ c.delay = 1 /\ c.idle # IdleDisabled}

InitLive ==
  /\ cfg \in LiveConfigs
  /\ upstreamProcess = NilSup
  /\ created = {}
  /\ cmd = [s \in Sups |-> NilCmd]
  /\ port = [s \in Sups |-> AutoPort]
  /\ age = [s \in Sups |-> 0]
  /\ mu = [s \in Sups |-> Free]
  /\ proc = [i \in Insts |-> "none"]
  /\ owner = [i \in Insts |-> NilSup]
  /\ args = [i \in Insts |-> 0]
  /\ pc = [t \in Threads |-> IF t \in Callers \cup {CleanupT} THEN "idle" ELSE "off"]
  /\ sleep = [t \in Threads |-> 0]
  /\ tsup = [t \in Threads |-> NilSup]
  /\ startErr = [c \in Callers |-> FALSE]
  /\ res = [c \in Callers |-> NoResult]
  /\ calls = 0
  /\ crashed = FALSE
  /\ hist = InitHist

\* Time goes on, and a goroutine that can run does run: the grace timer
\* after its sleep, and Stop once cmd.Wait() can return.  Nothing makes
\* the supervised process exit, and no request has to arrive.
Fairness ==
  /\ WF_vars(Tick)
  /\ \A i \in Insts : WF_vars(TimerFire(i)) /\ WF_vars(TimerKill(i))
  /\ \A t \in Stoppers : WF_vars(StopWait(t))

SpecLive == InitLive /\ [][Next]_vars /\ Fairness

\* ================================================================ claims
\* exec.Cmds created so far: the spawn attempts.
Spawns == Insts \ FreeInsts

\* The first concurrent GetUpstreams calls (each made before any call had
\* returned and before any exec.Cmd existed) have all returned, and no
\* further call has been made.
BatchDone ==
  /\ Cardinality(hist.batch) >= 2
  /\ calls = Cardinality(hist.batch)
  /\ \A c \in hist.batch : pc[c] = "idle"

\* C1: concurrent GetUpstreams calls made while the supervisor is Stopped
\* cause exactly one spawn (none when every caller got an error before the
\* spawn), and all of them observe the same outcome: the same dial address
\* or the same error.
C1_OneSpawnSameOutcome ==
  BatchDone =>
    /\ Cardinality(Spawns) <= 1
    /\ \A c, d \in hist.batch : res[c].kind = res[d].kind /\ res[c].port = res[d].port
    /\ (\E c \in hist.batch : res[c].kind = "addr") => Cardinality(Spawns) = 1

\* cmd.Start() of exec.Cmd i has returned an error.
SpawnFailed(i) ==
  /\ proc[i] = "unstarted"
  /\ \A c \in Callers : pc[c] = "spawn" => cmd[tsup[c]] # i

\* C2: after the spawn has failed inside Start the supervisor is back in
\* Stopped: the process handle is absent (IsRunning is false), so the
\* caller gets no dial address and the next call spawns afresh instead of
\* finding the process "already running".
C2_SpawnFailureRevertsToStopped ==
  \A i \in Insts : SpawnFailed(i) => cmd[owner[i]] # i

\* C3: a dial address is returned only for a process that has been spawned
\* and whose startup delay has fully elapsed.
C3_AddressOnlyWhenReady ==
  \A c \in Callers : res[c].kind = "addr" => res[c].ready

\* C4: while every gap between consecutive activity reports stays below
\* the idle timeout, no idle monitor terminates the process: a monitor
\* that has called Stop found a gap that had reached the timeout.
C4_ActivityDelaysTermination ==
  \A i \in Insts : pc[MonT(i)] \in {"stop", "wait"} => hist.gapped[owner[i]]

\* C4's case: with activity gaps all below the timeout, a monitor has made
\* its check after a tick and has gone back to sleep.
C4_Witness ==
  \E i \in Insts :
    /\ cfg.idle = 2
    /\ pc[MonT(i)] = "sleep" /\ sleep[MonT(i)] = TickInterval
    /\ age[owner[i]] = 1
    /\ ~hist.gapped[owner[i]]
    /\ \E c \in Callers : res[c].kind = "addr"

\* C5: an idle monitor calls Stop once and never ticks again; its Stop of
\* a process that was running when signalled returns only with the process
\* reaped and the handle cleared; and a Start that then finds the handle
\* clear spawns a fresh exec.Cmd.
C5_IdleStopOnceThenRestart ==
  [][/\ \A i \in Insts :
          LET m == MonT(i)
              s == owner[i] IN
          /\ pc[m] \in {"stop", "wait"} => pc'[m] \in {"stop", "wait", "off"}
          /\ (pc[m] \in {"stop", "wait"} /\ pc'[m] = "off" /\ IsRunning(s)
                /\ (pc[m] = "stop" => proc[cmd[s]] = "alive"))
             => cmd'[s] = NilCmd /\ proc'[cmd[s]] = "reaped"
     /\ \A c \in Callers :
          pc[c] = "start" /\ pc'[c] = "spawn"
          => /\ ~IsRunning(tsup'[c])
             /\ proc[cmd'[tsup'[c]]] = "none"
             /\ \A i \in Insts : proc[i] = "reaped" => proc'[i] = "reaped"]_vars

\* C5's case: without any Cleanup, the idle monitor has stopped a process
\* (it is reaped) and a later Start has a fresh one running.
C5_Witness ==
  \E i, j \in Insts :
    /\ i # j /\ owner[i] = owner[j] /\ cfg.idle = 2
    /\ pc[CleanupT] = "idle"
    /\ proc[i] = "reaped" /\ pc[MonT(i)] = "off"
    /\ proc[j] = "alive" /\ Ready(j) /\ cmd[owner[j]] = j

\* C6: a Stop that found the process running returns only with the handle
\* cleared and the process reaped, whether SIGINT was delivered or its
\* delivery failed because the process had already exited.
C6_StopEndsStopped ==
  [][\A t \in Stoppers :
       (pc[t] \in {"stop", "wait"} /\ pc'[t] = AfterStop(t) /\ IsRunning(Recv(t)))
       => cmd'[Recv(t)] = NilCmd /\ proc'[cmd[Recv(t)]] = "reaped"]_vars

\* C7: when the grace period has run out after a delivered SIGINT and the
\* process is still alive, the timer goes on to Kill; Stop is then still
\* waiting on that very process, the Kill ends it, and Stop's return
\* clears the handle.
C7_GraceExpiryKills ==
  [][\A i \in Insts :
       LET g == TimerT(i)
           s == owner[i] IN
       /\ (pc[g] \in {"sleep", "kill"} /\ proc[i] = "alive")
          => cmd[s] = i /\ \E t \in Stoppers : pc[t] = "wait" /\ Recv(t) = s
       /\ (pc[g] = "sleep" /\ pc'[g] # "sleep" /\ proc[i] = "alive") => pc'[g] = "kill"
       /\ (pc[g] = "kill" /\ pc'[g] # "kill" /\ proc[i] = "alive")
          => proc'[i] = "killed"
       /\ (proc[i] = "killed" /\ proc'[i] # "killed")
          => proc'[i] = "reaped" /\ cmd'[s] = NilCmd]_vars

\* C7's case: the grace timer has killed the process its Stop is waiting on.
C7_Witness ==
  \E i \in Insts :
    /\ proc[i] = "killed" /\ pc[TimerT(i)] = "off" /\ cmd[owner[i]] = i
    /\ \E t \in Stoppers : pc[t] = "wait" /\ Recv(t) = owner[i]

\* C8: with the idle timeout set to the "disabled" value -1 no idle
\* monitor ever calls Stop.
C8_DisabledNeverStops ==
  cfg.idle = IdleDisabled => \A i \in Insts : pc[MonT(i)] \notin {"stop", "wait"}

\* C9: once Cleanup has returned for a supervisor that had spawned a
\* process, no further exec.Cmd is created and every GetUpstreams call
\* that returns afterwards returns an error.
C9_NoSpawnAfterCleanup ==
  [][(pc[CleanupT] = "done" /\ Spawns # {})
     => /\ Spawns' = Spawns
        /\ \A c \in Callers :
             (pc[c] = "ret" /\ pc'[c] = "idle") => res'[c].kind = "err"]_vars

\* C10: with a fixed port p, getAvailablePort is never called, u.port
\* stays p and every dial address returned is localhost:p, with or
\* without the %d placeholder in the command.
C10_FixedPortKept ==
  cfg.port # AutoPort =>
    /\ ~hist.alloc
    /\ \A s \in created : port[s] = cfg.port
    /\ \A c \in Callers : res[c].kind = "addr" => res[c].port = cfg.port
    /\ \A i \in Spawns : args[i] = IF cfg.placeholder THEN cfg.port ELSE 0

\* C10's case: fixed port and no placeholder; the process has been stopped
\* and started again, and a caller holds the dial address.
C10_Witness ==
  /\ cfg.port # AutoPort /\ ~cfg.placeholder
  /\ \E i, j \in Insts :
       /\ proc[i] = "reaped" /\ proc[j] = "alive" /\ owner[i] = owner[j]
       /\ cmd[owner[j]] = j
  /\ \E c \in Callers : res[c] = DialResult(cfg.port, TRUE)

\* The exec.Cmds of UpstreamProcess s whose process is alive.
LiveInsts(s) == {i \in Insts : owner[i] = s /\ proc[i] = "alive"}

\* C11: under every interleaving of GetUpstreams, Cleanup, idle-monitor
\* ticks and grace-timer expiries, an UpstreamProcess has at most one
\* spawned process alive, and that one is the process its handle names.
C11_AtMostOneLiveProcess ==
  \A s \in Sups :
    /\ Cardinality(LiveInsts(s)) <= 1
    /\ \A i \in LiveInsts(s) : cmd[s] = i

\* C11's case: Cleanup has stopped the first process of an UpstreamProcess
\* and a later Start has spawned its second, which is alive.
C11_Witness ==
  \E i, j \in Insts :
    /\ i # j /\ owner[i] = owner[j]
    /\ pc[CleanupT] = "done"
    /\ proc[i] = "reaped" /\ LiveInsts(owner[j]) = {j}

\* C12: termination never panics the program: neither Stop nor the grace
\* timer reaches through a nil u.cmd or a nil cmd.Process.
C12_TerminationNeverCrashes == ~crashed

\* The process of exec.Cmd i runs under its UpstreamProcess: Start has
\* returned for it, it is alive and it is the one u.cmd names.
Monitored(i) == owner[i] # NilSup /\ cmd[owner[i]] = i /\ proc[i] = "alive" /\ Ready(i)

\* No activity for the idle timeout and one tick more.
Overdue(s) == age[s] >= cfg.idle + TickInterval

\* A step in which time advances.
TimePasses ==
  \/ \E t \in Threads : sleep'[t] < sleep[t]
  \/ \E s \in Sups : age'[s] > age[s]

\* C13: with idle monitors that run as soon as their sleep ends, time
\* never advances beyond lastActivity + idleTimeout + one tick over a
\* running process whose own idle monitor has not called Stop.
C13_IdleStopWithinBound ==
  [][\A i \in Insts :
       (Monitored(i) /\ Overdue(owner[i]) /\ TimePasses)
       => pc[MonT(i)] \in {"stop", "wait"}]_vars

\* C13's case: the timeout and one more tick have passed without activity
\* over a process that is still alive, and its monitor has called Stop.
C13_Witness ==
  \E i \in Insts :
    /\ Monitored(i) /\ Overdue(owner[i])
    /\ pc[MonT(i)] \in {"stop", "wait"}

\* C14: the grace timer launched by the Stop of exec.Cmd i kills no other
\* process: its Kill never ends the process of an exec.Cmd that a later
\* Start created.
C14_TimerKillsOwnInstanceOnly ==
  [][\A i, j \in Insts :
       (pc[TimerT(i)] = "kill" /\ pc'[TimerT(i)] = "off"
          /\ proc[j] = "alive" /\ proc'[j] = "killed")
       => j = i]_vars

\* The idle-monitor goroutines of UpstreamProcess s that have not ended.
ActiveMonitors(s) == {i \in Insts : owner[i] = s /\ pc[MonT(i)] # "off"}

\* C15: an UpstreamProcess has at most one idle monitor that has not
\* ended, and once a later exec.Cmd has been created the monitor of an
\* earlier one has ended: a monitor still there belongs to the exec.Cmd
\* that u.cmd names.
C15_OneMonitorPerInstance ==
  \A s \in Sups :
    /\ Cardinality(ActiveMonitors(s)) <= 1
    /\ \A i \in ActiveMonitors(s) : IsRunning(s) => cmd[s] = i

\* C16: when the Stop called by an idle monitor has taken the lock, found
\* the process running and sent SIGINT, the idle condition still holds:
\* lastActivity + idleTimeout is not after now.
C16_IdleStillHoldsAtSignal ==
  [][\A i \in Insts :
       (pc[MonT(i)] = "stop" /\ pc'[MonT(i)] = "wait")
       => ~WithinIdleWindow(owner[i])]_vars

\* C17: for every interleaving of concurrent first GetUpstreams calls,
\* NewUpstreamProcess is called once: at most one UpstreamProcess ever
\* exists, and it is the one o.upstreamProcess names.
C17_OneSupervisorCreated ==
  /\ Cardinality(created) <= 1
  /\ \A s \in created : upstreamProcess = s

\* C18: a GetUpstreams call returns "no upstreams available" only when the
\* Start it made returned an error; a call whose Start returned nil returns
\* a dial address, also while Stop is called by an idle monitor (one
\* UpstreamProcess exists, Cleanup has not been called and the idle
\* timeout is a positive duration).
C18_ErrorOnlyAfterStartError ==
  [][\A c \in Callers :
       (pc[c] = "ret" /\ pc'[c] = "idle" /\ res'[c].kind = "err"
          /\ Cardinality(created) = 1 /\ pc[CleanupT] = "idle"
          /\ cfg.idle # IdleDisabled)
       => startErr[c]]_vars

\* C19: a Stop that has sent SIGINT to a running process eventually
\* returns, also when the process ignores SIGINT (the grace timer then
\* kills it); when it returns the process is reaped, the handle is
\* cleared and the lock is free, so that a Start waiting for the lock
\* finds the UpstreamProcess stopped and spawns again.
C19_StopEventuallyReturns ==
  /\ \A t \in Stoppers : (pc[t] = "wait") ~> (pc[t] # "wait" \/ crashed)
  /\ [][\A t \in Stoppers :
          (pc[t] = "wait" /\ pc'[t] # "wait")
          => /\ pc'[t] = AfterStop(t)
             /\ cmd'[Recv(t)] = NilCmd /\ mu'[Recv(t)] = Free
             /\ proc'[cmd[Recv(t)]] = "reaped"]_vars

\* C19's case: the process has ignored SIGINT for the whole grace period
\* while Stop waits for it with the lock held, and a GetUpstreams call is
\* waiting for that lock in Start.
C19_Witness ==
  \E t \in Stoppers, c \in Callers :
    LET s == Recv(t) IN
    /\ pc[t] = "wait" /\ mu[s] = t
    /\ proc[cmd[s]] = "alive" /\ pc[TimerT(cmd[s])] = "kill"
    /\ pc[c] = "start" /\ upstreamProcess = s

\* C20: a Stop whose process exits by itself after SIGINT, before the
\* grace timer has fired, completes without a Kill: Stop does not call
\* Kill after cmd.Wait(), and its grace timer calls Kill only on its own
\* process while that process is alive.
C20_KillOnlyAfterGrace ==
  [][/\ \A t \in Stoppers :
          (pc[t] = "wait" /\ pc'[t] # "wait" /\ proc[cmd[Recv(t)]] = "exited"
             /\ pc[TimerT(cmd[Recv(t)])] = "sleep")
          => ~StopKillsAfterWait(Recv(t))
     /\ \A i \in Insts :
          (pc[TimerT(i)] = "kill" /\ pc'[TimerT(i)] = "off")
          => cmd[owner[i]] = i /\ proc[i] = "alive"]_vars

====
